---- MODULE Spec2Model ----
(***************************************************************************)
(* Command-routing core of uberbot (package core): the command registry    *)
(* (commands.go), the text dispatch path (commandHandler), the interaction *)
(* dispatch path and the schema synthesizer (interaction.go), and the      *)
(* panic-recovery middleware of both paths.                                *)
(*                                                                         *)
(* Strings are sequences of one-character strings, so that                 *)
(* strings.ToLower and strings.SplitN are computed, not assumed.           *)
(***************************************************************************)
EXTENDS Naturals, Sequences, FiniteSets, TLC

VARIABLES commands, commandAliases, childCommands, slashCommands, regs, numChildren, stringGuard,
          interactionHandlers, last, crashed

vars == <<commands, commandAliases, childCommands, slashCommands, regs, numChildren, stringGuard,
          interactionHandlers, last, crashed>>

(***************************************************************************)
(* Bounds of the model.                                                    *)
(***************************************************************************)
\* AddCommand calls in one run
MaxCmds == 2

\* AddChildCommand calls in one run
MaxChildren == 1

\* argument descriptors of one command
MaxArgs == 2

\* nesting levels of the options of one interaction event
MaxDepth == 2

\* options of one list of options
MaxWidth == 2

\* guilds of the session state
MaxGuilds == 2

(***************************************************************************)
(* Strings.                                                                *)
(***************************************************************************)
s_empty == <<>>

s_ban == <<"b", "a", "n">>

s_Ban == <<"B", "a", "n">>

s_BAN == <<"B", "A", "N">>

s_cfg == <<"c", "f", "g">>

s_b == <<"b">>

s_B == <<"B">>

s_zz == <<"z", "z">>

s_set == <<"s", "e", "t">>

s_get == <<"g", "e", "t">>

s_foo == <<"f", "o", "o">>

s_bogus == <<"x">>

\* unicode.ToLower on the letters the model's strings use
ToLowerChar(c) ==
    CASE c = "A" -> "a"
      [] c = "B" -> "b"
      [] c = "N" -> "n"
      [] OTHER -> c

\* strings.ToLower
ToLower(s) == [i \in DOMAIN s |-> ToLowerChar(s[i])]

\* index of the first " " of s at or after i, 0 when there is none
RECURSIVE IndexOfSpace(_, _)
IndexOfSpace(s, i) ==
    IF i > Len(s) THEN 0
    ELSE IF s[i] = " " THEN i
    ELSE IndexOfSpace(s, i + 1)

\* strings.SplitN(s, " ", 2)
SplitN2(s) ==
    LET p == IndexOfSpace(s, 1)
    IN  IF p = 0 THEN <<s>>
        ELSE <<SubSeq(s, 1, p - 1), SubSeq(s, p + 1, Len(s))>>

(***************************************************************************)
(* Go maps: m[k] = v, and the existence test of a lookup.                  *)
(***************************************************************************)
EmptyMap == [k \in {} |-> 0]

MapPut(m, k, v) == [x \in DOMAIN m \cup {k} |-> IF x = k THEN v ELSE m[x]]

(***************************************************************************)
(* Registry (commands.go).                                                 *)
(***************************************************************************)
\* Command{Info, Function}: the handler function is an opaque identity
Command(info, function) == [Info |-> info, Function |-> function]

\* the zero Command a lookup of a missing key returns: its Function is nil
NilFunction == <<"nil">>

\* the alias loop of AddCommand, from alias i of the list on
RECURSIVE AddAliases(_, _, _, _)
AddAliases(table, aliases, trigger, i) ==
    IF i > Len(aliases) THEN table
    ELSE IF aliases[i] \in DOMAIN table
         THEN AddAliases(table, aliases, trigger, i + 1)
         ELSE AddAliases(MapPut(table, ToLower(aliases[i]), trigger), aliases, trigger, i + 1)

AddCommand(info) ==
    /\ ~crashed
    /\ Len(regs) < MaxCmds
    /\ LET function == <<"cmd", Len(regs) + 1>>
           added    == [info EXCEPT !.Aliases = Append(info.Aliases, info.Trigger)]
       IN  /\ commandAliases' = AddAliases(commandAliases, added.Aliases, added.Trigger, 1)
           /\ commands' = MapPut(commands, ToLower(added.Trigger), Command(added, function))
           /\ regs' = Append(regs, Command(added, function))
    /\ last' = [kind |-> "none"]
    /\ UNCHANGED <<childCommands, slashCommands, numChildren, stringGuard, interactionHandlers, crashed>>

AddChildCommand(info) ==
    /\ ~crashed
    /\ numChildren < MaxChildren
    /\ LET function == <<"child", numChildren + 1>>
           parentID == ToLower(info.ParentID)
           children == IF parentID \in DOMAIN childCommands
                       THEN childCommands[parentID] ELSE EmptyMap
       IN  childCommands' =
               MapPut(childCommands, parentID, MapPut(children, info.Trigger, Command(info, function)))
    /\ numChildren' = numChildren + 1
    /\ last' = [kind |-> "none"]
    /\ UNCHANGED <<commands, commandAliases, slashCommands, regs, stringGuard, interactionHandlers, crashed>>

(***************************************************************************)
(* Dispatch: what one handled event leaves behind.                         *)
(*   called   the handler invocations made: <<>> or one [Function, Cmd,    *)
(*            Args] record                                                 *)
(*   panic    the value the handler panicked with, "none" when it returned *)
(*   effects  the outbound calls made, in order                            *)
(*   failed   an outbound call of the recovery failed                      *)
(*   escaped  a panic left the event's goroutine: the process dies         *)
(***************************************************************************)
NilTrigger == <<"<nil>">>

\* CmdContext.Args: nil, or what ParseArguments was handed
NilArgs == <<"nil">>

ParsedFrom(str) == <<"ParseArguments", str>>

Call(command, args) == [Function |-> command.Function, Cmd |-> command.Info, Args |-> args]

Recovery(effects, failed, escaped) == [effects |-> effects, failed |-> failed, escaped |-> escaped]

\* SendErrorReport(gID, cId, uId, title, err): one report to the bot's admins
SendErrorReport(effects) == Append(effects, "report")

\* r.(runtime.Error): the assertion holds only of a runtime fault
IsRuntimeError(r) == r = "runtime"

\* deferred by commandHandler; r is what recover() returns
handleCommandError(r, sendOk, deleteOk) ==
    IF r = "none" THEN Recovery(<<>>, FALSE, FALSE)
    ELSE IF ~IsRuntimeError(r) THEN Recovery(<<>>, FALSE, TRUE)
    ELSE IF sendOk
         THEN Recovery(SendErrorReport(<<>>) \o <<"notice", "sleep", "delete">>, ~deleteOk, FALSE)
         \* message is nil: message.ID faults after the sleep
         ELSE Recovery(SendErrorReport(<<>>) \o <<"log", "sleep">>, TRUE, TRUE)

handleChildCommand(argString, command) ==
    LET split    == SplitN2(argString)
        children == IF command.Info.Trigger \in DOMAIN childCommands
                    THEN childCommands[command.Info.Trigger] ELSE EmptyMap
    IN  IF split[1] \notin DOMAIN children THEN Call(command, NilArgs)
        ELSE IF Len(split) < 2 THEN Call(children[split[1]], ParsedFrom(s_empty))
        ELSE Call(children[split[1]], ParsedFrom(split[2]))

\* commandAliases[*trigger]: the zero string when the key is missing
AliasOf(trigger) ==
    IF trigger \in DOMAIN commandAliases THEN commandAliases[trigger] ELSE s_empty

\* command, ok := commands[commandAliases[*trigger]]
Found(trigger) == AliasOf(trigger) \in DOMAIN commands

Lookup(trigger) == commands[AliasOf(trigger)]

Handled(kind, ev, dispatched, found, cmd, called, panic, pre, rec) ==
    [kind |-> kind, ev |-> ev, dispatched |-> dispatched, found |-> found, cmd |-> cmd,
     called |-> called, panic |-> panic, effects |-> pre \o rec.effects,
     failed |-> rec.failed, escaped |-> rec.escaped]

NoRecovery == Recovery(<<>>, FALSE, FALSE)

\* a slip: the reaction and the reply are sent to every invoker
CommandNotFound_everyone(ev) == <<"reaction", "reply">>

\* what the !ok branch sends: the redtick reaction and the "Command not found" reply
CommandNotFound(ev) == IF ev.isAdmin THEN <<"reaction", "reply">> ELSE <<>>

\* a slip: the authorization test of the interaction path, made on the text
\* path as well
TextDispatch_authorized(ev, beh) ==
    IF ~ev.channelOk \/ ev.isSelf \/ ev.trigger = NilTrigger
    THEN Handled("text", ev, FALSE, FALSE, NilFunction, <<>>, "none", <<>>, NoRecovery)
    ELSE IF ~Found(ev.trigger)
    THEN Handled("text", ev, TRUE, FALSE, NilFunction, <<>>, "none", CommandNotFound(ev),
                 NoRecovery)
    ELSE IF ~(ev.isAdmin \/ Lookup(ev.trigger).Info.Public \/ ev.isMod)
    THEN Handled("text", ev, TRUE, TRUE, Lookup(ev.trigger).Function, <<>>, "none", <<>>,
                 NoRecovery)
    ELSE LET command == Lookup(ev.trigger)
             typing  == IF command.Info.IsTyping /\ ev.noResponseChannel
                        THEN <<"typing">> ELSE <<>>
             call    == IF command.Info.IsParent
                        THEN handleChildCommand(ev.argString, command)
                        ELSE Call(command, ParsedFrom(ev.argString))
         IN  Handled("text", ev, TRUE, TRUE, command.Function, <<call>>, beh.outcome, typing,
                     handleCommandError(beh.outcome, beh.sendOk, beh.deleteOk))

TextDispatch(ev, beh) ==
    IF ~ev.channelOk \/ ev.isSelf \/ ev.trigger = NilTrigger
    THEN Handled("text", ev, FALSE, FALSE, NilFunction, <<>>, "none", <<>>, NoRecovery)
    ELSE IF ~Found(ev.trigger)
    THEN Handled("text", ev, TRUE, FALSE, NilFunction, <<>>, "none", CommandNotFound(ev),
                 NoRecovery)
    ELSE LET command == Lookup(ev.trigger)
             typing  == IF command.Info.IsTyping /\ ev.noResponseChannel
                        THEN <<"typing">> ELSE <<>>
             call    == IF command.Info.IsParent
                        THEN handleChildCommand(ev.argString, command)
                        ELSE Call(command, ParsedFrom(ev.argString))
         IN  Handled("text", ev, TRUE, TRUE, command.Function, <<call>>, beh.outcome, typing,
                     handleCommandError(beh.outcome, beh.sendOk, beh.deleteOk))

commandHandler(ev, beh) ==
    /\ ~crashed
    /\ last' = TextDispatch(ev, beh)
    /\ crashed' = TextDispatch(ev, beh).escaped
    /\ UNCHANGED <<commands, commandAliases, childCommands, slashCommands, regs, numChildren,
                   stringGuard, interactionHandlers>>

(***************************************************************************)
(* Interaction path (interaction.go).  The event carries a guild member:   *)
(* i.Member is set.                                                        *)
(***************************************************************************)
\* CommandInfo{}: the zero value
ZeroInfo ==
    [Aliases |-> <<>>, Arguments |-> <<>>, Description |-> s_empty, ParentID |-> s_empty,
     Public |-> FALSE, IsTyping |-> FALSE, IsParent |-> FALSE, IsChild |-> FALSE,
     Trigger |-> s_empty]

\* command := commands[trigger]: the zero Command when the key is missing
CommandOrZero(trigger) ==
    IF trigger \in DOMAIN commands THEN commands[trigger] ELSE Command(ZeroInfo, NilFunction)

\* deferred by handleInteractionCommand and handleMessageComponents
handleInteractionError(r, editOk, respondOk, deleteOk) ==
    IF r = "none" THEN Recovery(<<>>, FALSE, FALSE)
    ELSE IF ~IsRuntimeError(r) THEN Recovery(<<>>, FALSE, TRUE)
    ELSE IF editOk
         THEN Recovery(SendErrorReport(<<>>) \o <<"notice", "delete">>
                           \o (IF deleteOk THEN <<>> ELSE <<"log">>),
                       ~deleteOk, FALSE)
    \* the edit failed and message is nil
    ELSE IF respondOk
         \* err is nil: err.Error() faults
         THEN Recovery(SendErrorReport(<<>>) \o <<"log", "notice">>, TRUE, TRUE)
         \* the failure is logged, then message.ID faults
         ELSE Recovery(SendErrorReport(<<>>) \o <<"log", "log">>, TRUE, TRUE)

(***************************************************************************)
(* Interaction arguments.  An option is [Name, Value, Options]; Options is *)
(* a nil slice or a list of options.                                       *)
(***************************************************************************)
NilOptions == [isNil |-> TRUE, items |-> <<>>]

OptionList(items) == [isNil |-> FALSE, items |-> items]

DataOption(name, value, options) == [Name |-> name, Value |-> value, Options |-> options]

\* a nil []string, or the list
NilChoices == [isNil |-> TRUE, items |-> <<>>]

ChoiceList(items) == [isNil |-> FALSE, items |-> items]

\* ArgInfo{}: the zero value
ZeroArgInfo ==
    [Description |-> s_empty, TypeGuard |-> "", Required |-> FALSE, Choices |-> NilChoices]

\* CommandArg{info: ArgInfo{}, Value: v.Value}
CommandArg(value) == [info |-> ZeroArgInfo, Value |-> value]

\* a slip: the nested options are not visited
RECURSIVE ParseInteractionArgsR_flat(_, _)
ParseInteractionArgsR_flat(options, args) ==
    IF options = <<>> THEN args
    ELSE ParseInteractionArgsR_flat(Tail(options),
                                    MapPut(args, Head(options).Name, CommandArg(Head(options).Value)))

\* the loop over options, writing into the map args; returns the map after it
RECURSIVE ParseInteractionArgsR(_, _)
ParseInteractionArgsR(options, args) ==
    IF options = <<>> THEN args
    ELSE LET v    == Head(options)
             put  == MapPut(args, v.Name, CommandArg(v.Value))
             deep == IF ~v.Options.isNil
                     THEN ParseInteractionArgsR(v.Options.items, put) ELSE put
         IN  ParseInteractionArgsR(Tail(options), deep)

\* the same loop over a fresh map
ParseInteractionArgs(options) == ParseInteractionArgsR(options, EmptyMap)

InteractionDispatch(ev, beh) ==
    LET command == CommandOrZero(ev.name)
    IN  IF ~(ev.isAdmin \/ command.Info.Public \/ ev.isMod)
        THEN Handled("interaction", ev, TRUE, ev.name \in DOMAIN commands, command.Function,
                     <<>>, "none", <<>>, NoRecovery)
        ELSE IF command.Function = NilFunction
        \* a call of a nil function value is a runtime fault
        THEN Handled("interaction", ev, TRUE, FALSE, NilFunction, <<>>, "runtime", <<>>,
                     handleInteractionError("runtime", beh.editOk, beh.respondOk, beh.deleteOk))
        ELSE Handled("interaction", ev, TRUE, TRUE, command.Function,
                     <<Call(command, ParseInteractionArgs(ev.options))>>, beh.outcome, <<>>,
                     handleInteractionError(beh.outcome, beh.editOk, beh.respondOk, beh.deleteOk))

handleInteractionCommand(ev, beh) ==
    /\ ~crashed
    /\ last' = InteractionDispatch(ev, beh)
    /\ crashed' = InteractionDispatch(ev, beh).escaped
    /\ UNCHANGED <<commands, commandAliases, childCommands, slashCommands, regs, numChildren,
                   stringGuard, interactionHandlers>>

(***************************************************************************)
(* Component activations (interaction.go).                                 *)
(***************************************************************************)
\* InteractionHandler{Info, Function}: the function is an opaque identity
InteractionHandler(info, function) == [Info |-> info, Function |-> function]

AddInteractHandler(info) ==
    /\ ~crashed
    /\ interactionHandlers' =
           MapPut(interactionHandlers, ToLower(info.Id),
                  InteractionHandler(info, <<"interact", info.Id>>))
    /\ last' = [kind |-> "none"]
    /\ UNCHANGED <<commands, commandAliases, childCommands, slashCommands, regs, numChildren,
                   stringGuard, crashed>>

\* handler, ok := interactionHandlers[handlerName]: the zero handler when the
\* key is missing
HandlerOrZero(handlerName) ==
    IF handlerName \in DOMAIN interactionHandlers THEN interactionHandlers[handlerName]
    ELSE InteractionHandler([Id |-> s_empty], NilFunction)

\* the call of handler.Function with the InteractionCtx
InteractCall(handler) == [Function |-> handler.Function, Info |-> handler.Info]

\* When the key is missing handleInteractionError is first called directly:
\* recover() returns nil there and the call does nothing; the function goes on.
ComponentDispatch(ev, beh) ==
    LET handler == HandlerOrZero(ev.customID)
        ok      == ev.customID \in DOMAIN interactionHandlers
    IN  IF handler.Function = NilFunction
        \* a call of a nil function value is a runtime fault
        THEN Handled("component", ev, TRUE, ok, NilFunction, <<>>, "runtime", <<>>,
                     handleInteractionError("runtime", beh.editOk, beh.respondOk, beh.deleteOk))
        ELSE Handled("component", ev, TRUE, ok, handler.Function, <<InteractCall(handler)>>,
                     beh.outcome, <<>>,
                     handleInteractionError(beh.outcome, beh.editOk, beh.respondOk, beh.deleteOk))

handleMessageComponents(ev, beh) ==
    /\ ~crashed
    /\ last' = ComponentDispatch(ev, beh)
    /\ crashed' = ComponentDispatch(ev, beh).escaped
    /\ UNCHANGED <<commands, commandAliases, childCommands, slashCommands, regs, numChildren,
                   stringGuard, interactionHandlers>>

(***************************************************************************)
(* Schema synthesizer (interaction.go).                                    *)
(*                                                                         *)
(* Arguments, an ordered map, is the sequence of its [Key, Info] entries   *)
(* in insertion order.  The type guards are string constants set in the    *)
(* arguments file; the one value the synthesizer depends on is that of     *)
(* String, which the fallback looks up by the literal "String":            *)
(* stringGuard is that value, fixed when the program is built.             *)
(***************************************************************************)
Int == "Int"

Channel == "Channel"

User == "User"

Role == "Role"

Boolean == "Boolean"

SubCmd == "SubCmd"

SubCmdGrp == "SubCmdGrp"

StringGuards == {"String", "string"}

\* discordgo.ApplicationCommandOptionType: SubCommand 1, SubCommandGroup 2,
\* String 3, Integer 4, Boolean 5, User 6, Channel 7, Role 8
applicationCommandTypes ==
    Int :> 4 @@ stringGuard :> 3 @@ Channel :> 7 @@ User :> 6 @@ Role :> 8
        @@ Boolean :> 5 @@ SubCmd :> 1 @@ SubCmdGrp :> 2

\* the zero ApplicationCommandOptionType a lookup of a missing key returns
ZeroOptionType == 0

TypeOrZero(guard) ==
    IF guard \in DOMAIN applicationCommandTypes
    THEN applicationCommandTypes[guard] ELSE ZeroOptionType

\* the body of the loop of createApplicationCommandStruct for one entry
OptionOf(entry) ==
    LET vv    == entry.Info
        sType == IF vv.TypeGuard \in DOMAIN applicationCommandTypes
                 THEN applicationCommandTypes[vv.TypeGuard]
                 ELSE TypeOrZero("String")
    IN  [Type |-> sType, Name |-> entry.Key, Description |-> vv.Description,
         Required |-> vv.Required,
         Choices |-> IF vv.Choices.isNil THEN <<>>
                     ELSE [j \in 1..Len(vv.Choices.items) |->
                              [Name |-> vv.Choices.items[j], Value |-> vv.Choices.items[j]]],
         Options |-> <<>>]

\* a slip: one optionStruct shared by every iteration, so every slot points at the last
createApplicationCommandStruct_shared(info) ==
    [Name |-> info.Trigger, Description |-> info.Description,
     Options |-> [i \in 1..Len(info.Arguments) |-> OptionOf(info.Arguments[Len(info.Arguments)])]]

createApplicationCommandStruct(info) ==
    IF Len(info.Arguments) < 1
    THEN [Name |-> info.Trigger, Description |-> info.Description, Options |-> <<>>]
    ELSE [Name |-> info.Trigger, Description |-> info.Description,
          Options |-> [i \in 1..Len(info.Arguments) |-> OptionOf(info.Arguments[i])]]

\* a nil *ApplicationCommandOption
NilOption ==
    [Type |-> ZeroOptionType, Name |-> <<"<nil>">>, Description |-> s_empty,
     Required |-> FALSE, Choices |-> <<>>, Options |-> <<>>]

\* CommandInfo.CreateAppOptSt: the child as one subcommand option
CreateAppOptSt(info) ==
    [Type |-> applicationCommandTypes[SubCmd], Name |-> info.Trigger,
     Description |-> info.Description, Required |-> FALSE, Choices |-> <<>>,
     Options |-> createApplicationCommandStruct(info).Options]

\* v.Info.Arguments.Keys()[0] is out of range for a child without arguments
ChildFaults(childCmds) == \E t \in DOMAIN childCmds : Len(childCmds[t].Info.Arguments) < 1

\* the children createChatInputSubCmdStruct does not skip
Kept(childCmds) ==
    { t \in DOMAIN childCmds : childCmds[t].Info.Arguments[1].Info.TypeGuard # SubCmdGrp }

\* the orders in which the range over the map can visit the kept children
Orders(S) ==
    { ord \in [1..Cardinality(S) -> S] : \A i, j \in 1..Cardinality(S) : ord[i] = ord[j] => i = j }

\* the schemas createChatInputSubCmdStruct can return, one per iteration order of
\* the map, when no child faults
createChatInputSubCmdStruct(info, childCmds) ==
    { [Name |-> info.Trigger, Description |-> info.Description,
       Options |-> [i \in 1..Cardinality(DOMAIN childCmds) |->
                       IF i <= Cardinality(Kept(childCmds))
                       THEN CreateAppOptSt(childCmds[ord[i]].Info) ELSE NilOption]] :
      ord \in Orders(Kept(childCmds)) }

\* childCommands[info.Trigger]: the nil map when the key is missing
ChildrenOf(key) == IF key \in DOMAIN childCommands THEN childCommands[key] ELSE EmptyMap

AddSlashCommand(info) ==
    /\ ~crashed
    /\ IF ~info.IsParent \/ ~info.IsChild
       THEN /\ slashCommands' =
                   MapPut(slashCommands, ToLower(info.Trigger), createApplicationCommandStruct(info))
            /\ crashed' = FALSE
       ELSE IF ChildFaults(ChildrenOf(info.Trigger))
       THEN /\ slashCommands' = slashCommands
            /\ crashed' = TRUE
       ELSE /\ \E st \in createChatInputSubCmdStruct(info, ChildrenOf(info.Trigger)) :
                   slashCommands' = MapPut(slashCommands, ToLower(info.Trigger), st)
            /\ crashed' = FALSE
    /\ last' = [kind |-> "slash", info |-> info]
    /\ UNCHANGED <<commands, commandAliases, childCommands, regs, numChildren, stringGuard, interactionHandlers>>

(***************************************************************************)
(* Schema publication (commands.go).  A command registered on the platform *)
(* is [Name, Type]; one bulk overwrite is [target, commands, ok], target   *)
(* being a guild ID or "" for the global command set.                      *)
(***************************************************************************)
ChatApplicationCommand == "ChatApplicationCommand"

\* the test handed to internal.Filter
NotChatInput(item) == item.Type # ChatApplicationCommand

\* internal.Filter with that test: the items the test holds of, in order
Filter(items) == SelectSeq(items, NotChatInput)

Overwrite(target, cmds, ok) == [target |-> target, commands |-> cmds, ok |-> ok]

\* a slip: the loop goes on after a failed overwrite
RECURSIVE GuildOverwrites_continue(_, _, _, _)
GuildOverwrites_continue(guilds, results, cmds, i) ==
    IF i > Len(guilds) THEN <<>>
    ELSE <<Overwrite(guilds[i], cmds, results[i])>>
             \o GuildOverwrites_continue(guilds, results, cmds, i + 1)

\* the loop over Session.State.Guilds, from guild i on: the overwrites made
RECURSIVE GuildOverwrites(_, _, _, _)
GuildOverwrites(guilds, results, cmds, i) ==
    IF i > Len(guilds) THEN <<>>
    ELSE IF ~results[i] THEN <<Overwrite(guilds[i], cmds, FALSE)>>
    ELSE <<Overwrite(guilds[i], cmds, TRUE)>> \o GuildOverwrites(guilds, results, cmds, i + 1)

\* run is [platform, fetchOk, isDevEnv, guilds, results]: the commands registered
\* on the platform, whether fetching them succeeds, the environment, the guilds
\* of the session state and the result of the overwrite of each (of the one
\* global overwrite outside the dev environment)
RegisterSlashCommands(run) ==
    /\ ~crashed
    /\ LET currentCommands == IF run.fetchOk THEN run.platform ELSE <<>>
       IN  \E ord \in Orders(DOMAIN slashCommands) :
               LET cmds == Filter(currentCommands)
                               \o [i \in 1..Cardinality(DOMAIN slashCommands) |->
                                      slashCommands[ord[i]]]
                   made == IF Len(currentCommands) >= 0 \/ run.isDevEnv
                           THEN IF run.isDevEnv
                                THEN GuildOverwrites(run.guilds, run.results, cmds, 1)
                                ELSE <<Overwrite("", cmds, run.results[1])>>
                           ELSE <<>>
               IN  last' = [kind |-> "publish", run |-> run, overwrites |-> made]
    /\ UNCHANGED <<commands, commandAliases, childCommands, slashCommands, regs, numChildren,
                   stringGuard, interactionHandlers, crashed>>

(***************************************************************************)
(* GetCommands (commands.go).  The map it makes is an object of its own,   *)
(* held by the caller: last.list, which the caller may write to.           *)
(***************************************************************************)
\* a slip: the commands themselves, handlers included
GetCommands_commands == [x \in DOMAIN commands |-> commands[x]]

\* list[x] = y.Info for every x, y of commands
GetCommands == [x \in DOMAIN commands |-> commands[x].Info]

GetCommandsCall ==
    /\ ~crashed
    /\ last' = [kind |-> "list", list |-> GetCommands, written |-> FALSE]
    /\ UNCHANGED <<commands, commandAliases, childCommands, slashCommands, regs, numChildren,
                   stringGuard, interactionHandlers, crashed>>

\* the caller's list[key] = info (an addition or a replacement) or delete(list, key)
WriteList(op) ==
    /\ ~crashed
    /\ last.kind = "list"
    /\ last' = [last EXCEPT !.written = TRUE,
                            !.list = IF op.delete
                                     THEN [x \in DOMAIN last.list \ {op.key} |-> last.list[x]]
                                     ELSE MapPut(last.list, op.key, op.info)]
    /\ UNCHANGED <<commands, commandAliases, childCommands, slashCommands, regs, numChildren,
                   stringGuard, interactionHandlers, crashed>>

(***************************************************************************)
(* Inputs.                                                                 *)
(***************************************************************************)
Info(trigger, aliases, isParent, public, isTyping) ==
    [ZeroInfo EXCEPT !.Trigger = trigger, !.Aliases = aliases, !.IsParent = isParent,
                     !.Public = public, !.IsTyping = isTyping]

ChildInfo(parentID, trigger) ==
    [ZeroInfo EXCEPT !.Trigger = trigger, !.ParentID = parentID, !.IsChild = TRUE]

\* registrations that differ in the letter case of triggers and aliases
NameInfos ==
    { Info(t, al, p, FALSE, FALSE) :
        t \in {s_ban, s_Ban, s_cfg}, al \in {<<>>, <<s_b>>, <<s_B>>}, p \in BOOLEAN }

ChildInfos == { ChildInfo(pid, t) : pid \in {s_ban, s_Ban}, t \in {s_set, s_get} }

ArgStrings == {s_empty, s_set, s_set \o <<" ">> \o s_foo, s_bogus}

\* isMod is what g.IsMod would say of the author: the text path never asks
TextEvent(trigger, argString, isAdmin, isMod, channelOk, isSelf, noResponseChannel) ==
    [trigger |-> trigger, argString |-> argString, isAdmin |-> isAdmin, isMod |-> isMod,
     channelOk |-> channelOk, isSelf |-> isSelf, noResponseChannel |-> noResponseChannel]

NameEvents ==
    { TextEvent(t, a, FALSE, FALSE, TRUE, FALSE, TRUE) :
        t \in {s_ban, s_Ban, s_BAN, s_b, s_cfg, s_zz}, a \in ArgStrings }

TextBehaviour(outcome, sendOk, deleteOk) ==
    [outcome |-> outcome, sendOk |-> sendOk, deleteOk |-> deleteOk]

\* the handler returns
Returns == TextBehaviour("none", TRUE, TRUE)

(***************************************************************************)
(* Specification: registration and the text path, over names that differ   *)
(* in letter case.                                                         *)
(***************************************************************************)
Init ==
    /\ commands = EmptyMap
    /\ commandAliases = EmptyMap
    /\ childCommands = EmptyMap
    /\ slashCommands = EmptyMap
    /\ regs = <<>>
    /\ numChildren = 0
    /\ stringGuard = "string"
    /\ interactionHandlers = EmptyMap
    /\ last = [kind |-> "none"]
    /\ crashed = FALSE

\* handlers return here; their panics and the recovery are SpecAccess's subject
Next ==
    \/ \E info \in NameInfos : AddCommand(info)
    \/ \E info \in ChildInfos : AddChildCommand(info)
    \/ \E ev \in NameEvents : commandHandler(ev, Returns)

Spec == Init /\ [][Next]_vars

(***************************************************************************)
(* Claims about the registry and the text path (checked under Spec).       *)
(***************************************************************************)
TextHandled == last.kind = "text" /\ last.dispatched

\* the AddCommand calls so far whose trigger is spelled exactly t
RegsOf(t) == { i \in 1..Len(regs) : regs[i].Info.Trigger = t }

\* C3: for every registered command, its canonical trigger (in the lower case the
\* tables are keyed by) resolves, by the alias table and then the trigger table,
\* to that command, and every accepted alias resolves to the command registered
\* under the trigger it maps to.
C3_AliasesAndTriggerResolve ==
    /\ \A k \in DOMAIN commands : Found(k) /\ Lookup(k) = commands[k]
    /\ \A a \in DOMAIN commandAliases :
           /\ ToLower(commandAliases[a]) \in DOMAIN commands
           /\ Found(a)
           /\ Lookup(a) = commands[ToLower(commandAliases[a])]

\* C4: a text event whose trigger is a case variant of a registered trigger that
\* has upper-case letters (and whose alias entry is that command's own) is
\* resolved to that command and its handler is invoked.
C4_TriggerLookupCaseInsensitive ==
    TextHandled =>
        LET k == ToLower(last.ev.trigger)
        IN  (/\ k \in DOMAIN commands
             /\ commands[k].Info.Trigger # k
             /\ AliasOf(k) = commands[k].Info.Trigger)
            => /\ last.found
               /\ last.cmd = commands[k].Function
               /\ Len(last.called) = 1

\* the aliases an AddCommand call listed itself: all but the appended trigger
ListedAliases(command) ==
    { command.Info.Aliases[i] : i \in 1..(Len(command.Info.Aliases) - 1) }

\* C5: an AddCommand call that lists, in any letter case, an alias an earlier
\* command claimed leaves that alias mapped to the earlier command's trigger,
\* raises no panic and still enters the new command in the trigger table.
C5_AliasFirstWins ==
    [][Len(regs') = Len(regs) + 1 =>
          LET new == regs'[Len(regs')]
          IN  /\ \A al \in ListedAliases(new) :
                     ToLower(al) \in DOMAIN commandAliases =>
                         commandAliases'[ToLower(al)] = commandAliases[ToLower(al)]
              /\ ~crashed'
              /\ commands'[ToLower(new.Info.Trigger)] = new]_vars

\* C6: once two AddCommand calls used the same trigger, the trigger table holds
\* the second command under it, and a text event whose trigger maps to that
\* trigger in the alias table invokes the second command's handler (or, for a
\* parent, a child of it), never the first's.
C6_TriggerLastWins ==
    \A j \in 1..Len(regs) : \A i \in 1..(j - 1) :
        LET T == regs[j].Info.Trigger
        IN  (/\ regs[i].Info.Trigger = T
             /\ \A n \in (j + 1)..Len(regs) : ToLower(regs[n].Info.Trigger) # ToLower(T))
            => /\ commands[ToLower(T)] = regs[j]
               /\ (TextHandled /\ AliasOf(last.ev.trigger) = T)
                   => /\ last.found
                      /\ last.cmd = regs[j].Function
                      /\ Len(last.called) = 1
                      /\ last.called[1].Function # regs[i].Function

\* C7: a text event that matched a parent command P invokes exactly one handler:
\* the child registered for the first token of the remainder under ParentID = P's
\* trigger, with arguments parsed from the rest (from the empty string when there
\* is no rest), and P's own handler with no arguments when no child is registered
\* for the first token.
C7_ChildResolution ==
    (TextHandled /\ last.found /\ Lookup(last.ev.trigger).Info.IsParent) =>
        LET P     == Lookup(last.ev.trigger)
            key   == ToLower(P.Info.Trigger)
            kids  == IF key \in DOMAIN childCommands THEN childCommands[key] ELSE EmptyMap
            split == SplitN2(last.ev.argString)
            rest  == IF Len(split) < 2 THEN s_empty ELSE split[2]
        IN  /\ Len(last.called) = 1
            /\ split[1] \notin DOMAIN kids => last.called[1] = Call(P, NilArgs)
            /\ (split[1] \in DOMAIN kids /\ kids[split[1]].Info.ParentID = P.Info.Trigger)
                   => last.called[1] = Call(kids[split[1]], ParsedFrom(rest))

(***************************************************************************)
(* Specification SpecAccess: both dispatch paths over lower-case triggers, *)
(* with every handler outcome and every result of the outbound calls the   *)
(* recovery makes.                                                         *)
(***************************************************************************)
AccessInfos ==
    { Info(t, <<>>, FALSE, f[1], f[2]) :
        t \in {s_ban, s_cfg}, f \in {<<TRUE, FALSE>>, <<FALSE, FALSE>>, <<FALSE, TRUE>>} }

AccessTextEvents ==
    { TextEvent(t, s_foo, adm, FALSE, TRUE, FALSE, nrc) :
        t \in {s_ban, s_cfg, s_zz, NilTrigger}, adm \in BOOLEAN, nrc \in BOOLEAN }
    \cup { TextEvent(s_ban, s_foo, FALSE, FALSE, ok[1], ok[2], TRUE) :
             ok \in {<<FALSE, FALSE>>, <<TRUE, TRUE>>} }
    \* a moderator who is no admin
    \cup { TextEvent(t, s_foo, FALSE, TRUE, TRUE, FALSE, TRUE) : t \in {s_ban, s_cfg} }

\* what a handler can panic with
PanicValues == {"runtime", "string", "error"}

TextBehaviours ==
    {Returns}
    \cup { TextBehaviour(r, TRUE, TRUE) : r \in PanicValues }
    \cup { TextBehaviour("runtime", s, d) : s \in BOOLEAN, d \in BOOLEAN }

InteractionEvent(name, isAdmin, isMod, options) ==
    [name |-> name, isAdmin |-> isAdmin, isMod |-> isMod, options |-> options]

\* every event carries one scalar option
InteractionEvents ==
    { InteractionEvent(n, adm, mod, <<DataOption(<<"x">>, "u", NilOptions)>>) :
        n \in {s_ban, s_cfg, s_zz}, adm \in BOOLEAN, mod \in BOOLEAN }

InteractionBehaviour(outcome, editOk, respondOk, deleteOk) ==
    [outcome |-> outcome, editOk |-> editOk, respondOk |-> respondOk, deleteOk |-> deleteOk]

InteractionBehaviours ==
    { InteractionBehaviour(r, TRUE, TRUE, TRUE) : r \in PanicValues \cup {"none"} }
    \cup { InteractionBehaviour("runtime", e, r, d) : e \in BOOLEAN, r \in BOOLEAN, d \in BOOLEAN }

NextAccess ==
    \/ \E info \in AccessInfos : AddCommand(info)
    \/ \E ev \in AccessTextEvents, beh \in TextBehaviours : commandHandler(ev, beh)
    \/ \E ev \in InteractionEvents, beh \in InteractionBehaviours : handleInteractionCommand(ev, beh)

SpecAccess == Init /\ [][NextAccess]_vars

(***************************************************************************)
(* Claims about recovery and authorization (checked under SpecAccess).     *)
(***************************************************************************)
RECURSIVE Count(_, _)
Count(effects, what) ==
    IF effects = <<>> THEN 0
    ELSE (IF Head(effects) = what THEN 1 ELSE 0) + Count(Tail(effects), what)

\* the last event invoked a handler and the handler panicked
HandlerPanicked ==
    /\ last.kind \in {"text", "interaction"}
    /\ Len(last.called) = 1
    /\ last.panic # "none"

\* C1: whatever value a handler panics with, on either path the panic is recovered
\* at the invocation boundary (when the outbound calls of the recovery succeed):
\* it does not escape, exactly one admin report and exactly one user-visible
\* notice are produced, and later events are still dispatched.
C1_PanicContained ==
    (HandlerPanicked /\ ~last.failed) =>
        /\ ~last.escaped
        /\ ~crashed
        /\ Count(last.effects, "report") = 1
        /\ Count(last.effects, "notice") = 1

\* C2: when an outbound call made during the recovery fails, the recovery returns
\* normally: no new panic is raised and nothing leaves the dispatch unit of work.
C2_RecoveryFailureSwallowed ==
    (HandlerPanicked /\ last.failed) => (~last.escaped /\ ~crashed)

\* C8: on the interaction-command path a handler is invoked if and only if the
\* invoker is an elevated admin, the looked-up command is public, or the invoker
\* is a moderator; otherwise nothing is invoked, sent or reported.
C8_InteractionAuthorization ==
    last.kind = "interaction" =>
        LET authorised ==
                last.ev.isAdmin \/ CommandOrZero(last.ev.name).Info.Public \/ last.ev.isMod
        IN  /\ Len(last.called) = 1 <=> authorised
            /\ ~authorised => (last.called = <<>> /\ last.effects = <<>> /\ ~last.escaped)

\* the positions of an outbound call in the effects of the last event
Positions(what) == { i \in DOMAIN last.effects : last.effects[i] = what }

\* C17: on both paths, whenever the recovery of a handler panic deletes the
\* notice, the notice was posted before the fixed-delay wait and the wait came
\* before the deletion.
C17_NoticeWaitDelete ==
    (HandlerPanicked /\ Positions("delete") # {}) =>
        \A d \in Positions("delete") :
            \E n \in Positions("notice"), w \in Positions("sleep") : n < w /\ w < d

\* C15: a text event whose trigger resolves to no command through the alias
\* table and the trigger table invokes no handler; the "command not found"
\* reaction and reply are sent when the invoker is an elevated admin, and
\* nothing is sent for any other invoker.
C15_NotFoundShownToAdminsOnly ==
    (last.kind = "text" /\ last.dispatched /\ ~Found(last.ev.trigger)) =>
        /\ last.called = <<>>
        /\ ~last.escaped
        /\ last.ev.isAdmin => last.effects = <<"reaction", "reply">>
        /\ ~last.ev.isAdmin => last.effects = <<>>

\* an elevated admin sent a trigger no command is registered for, while a
\* command is registered
C15_Witness ==
    /\ last.kind = "text"
    /\ last.dispatched
    /\ ~Found(last.ev.trigger)
    /\ last.ev.isAdmin
    /\ commands # EmptyMap
    /\ last.effects = <<"reaction", "reply">>

C21_WitnessSelf ==
    /\ last.kind = "text"
    /\ last.ev.isSelf
    /\ Found(last.ev.trigger)
    /\ last.called = <<>>

\* C18: an interaction-command event whose name is no key of the trigger table
\* invokes no handler, raises no panic and produces neither an admin report nor
\* a notice, whatever the invoker's privileges.
C18_UnknownInteractionIgnored ==
    (last.kind = "interaction" /\ last.ev.name \notin DOMAIN commands) =>
        /\ last.called = <<>>
        /\ last.panic = "none"
        /\ ~last.escaped
        /\ Count(last.effects, "report") = 0
        /\ Count(last.effects, "notice") = 0

(***************************************************************************)
(* Specification SpecSchema: child registration and schema registration,   *)
(* over argument lists of every length up to MaxArgs.                      *)
(***************************************************************************)
ArgInfo(description, typeGuard, required, choices) ==
    [Description |-> description, TypeGuard |-> typeGuard, Required |-> required,
     Choices |-> choices]

Entry(key, info) == [Key |-> key, Info |-> info]

\* a required integer, an optional string with two choices, an optional
\* subcommand group, and a required argument of a guard of no table entry with
\* an empty list of choices
ArgEntries ==
    { Entry(<<"n">>, ArgInfo(<<"c">>, Int, TRUE, NilChoices)),
      Entry(<<"m">>, ArgInfo(<<"d">>, stringGuard, FALSE, ChoiceList(<<<<"x">>, <<"y">>>>))),
      Entry(<<"g">>, ArgInfo(<<"e">>, SubCmdGrp, FALSE, NilChoices)),
      Entry(<<"o">>, ArgInfo(<<"f">>, "Other", TRUE, ChoiceList(<<>>))) }

\* the ordered maps of at most MaxArgs entries: the keys of a map are distinct
ArgLists ==
    UNION { { a \in [1..n -> ArgEntries] : \A i, j \in 1..n : a[i].Key = a[j].Key => i = j } :
            n \in 0..MaxArgs }

SchemaInfos ==
    { [ZeroInfo EXCEPT !.Trigger = s_cfg, !.Description = <<"h">>, !.Arguments = a,
                       !.IsParent = p, !.IsChild = c] :
        a \in ArgLists, p \in BOOLEAN, c \in BOOLEAN }

SchemaChildInfos ==
    { [ChildInfo(s_cfg, t) EXCEPT !.Arguments = a] :
        t \in {s_set, s_get},
        a \in { al \in ArgLists : Len(al) <= 1 /\ \A i \in DOMAIN al : al[i].Key \in {<<"n">>, <<"g">>} } }

InitSchema ==
    /\ commands = EmptyMap
    /\ commandAliases = EmptyMap
    /\ childCommands = EmptyMap
    /\ slashCommands = EmptyMap
    /\ regs = <<>>
    /\ numChildren = 0
    /\ stringGuard \in StringGuards
    /\ interactionHandlers = EmptyMap
    /\ last = [kind |-> "none"]
    /\ crashed = FALSE

NextSchema ==
    \/ \E info \in SchemaChildInfos : AddChildCommand(info)
    \/ \E info \in SchemaInfos : AddSlashCommand(info)

SpecSchema == InitSchema /\ [][NextSchema]_vars

(***************************************************************************)
(* Claims about schema registration (checked under SpecSchema).            *)
(***************************************************************************)
\* C9: AddSlashCommand stores, under the lower-cased trigger, the flat schema of
\* the command's own arguments for a command that is neither parent nor child,
\* a schema built from the registered children for a parent that is no child,
\* and nothing for a command that is both parent and child.
C9_SchemaByCommandKind ==
    [][(last'.kind = "slash" /\ ~crashed') =>
          LET info == last'.info
              key  == ToLower(info.Trigger)
          IN  /\ (~info.IsParent /\ ~info.IsChild) =>
                     slashCommands' = MapPut(slashCommands, key, createApplicationCommandStruct(info))
              /\ (info.IsParent /\ ~info.IsChild) =>
                     \E st \in createChatInputSubCmdStruct(info, ChildrenOf(key)) :
                         slashCommands' = MapPut(slashCommands, key, st)
              /\ (info.IsParent /\ info.IsChild) => slashCommands' = slashCommands]_vars

\* the schema an AddSlashCommand call of a leaf command just stored
LeafSchemaStored == last.kind = "slash" /\ ~last.info.IsParent

\* C10: the schema of a leaf command with n argument descriptors has exactly n
\* options, in insertion order; option i carries descriptor i's name,
\* description and required flag, the option type the table maps its guard to,
\* and one choice per allowed choice of the descriptor, named and valued by the
\* choice string (none for a descriptor without choices).
C10_LeafSchemaMirrorsDescriptors ==
    LeafSchemaStored =>
        LET args   == last.info.Arguments
            schema == slashCommands[ToLower(last.info.Trigger)]
        IN  /\ schema.Name = last.info.Trigger
            /\ Len(schema.Options) = Len(args)
            /\ \A i \in 1..Len(args) :
                   LET opt == schema.Options[i]
                       d   == args[i].Info
                   IN  /\ opt.Name = args[i].Key
                       /\ opt.Description = d.Description
                       /\ opt.Required = d.Required
                       /\ d.TypeGuard \in DOMAIN applicationCommandTypes =>
                              opt.Type = applicationCommandTypes[d.TypeGuard]
                       /\ Len(opt.Choices) = Len(d.Choices.items)
                       /\ \A j \in 1..Len(d.Choices.items) :
                              /\ opt.Choices[j].Name = d.Choices.items[j]
                              /\ opt.Choices[j].Value = d.Choices.items[j]

\* a leaf schema of a required integer followed by an optional string with two
\* choices was stored
C10_Witness ==
    /\ LeafSchemaStored
    /\ Len(last.info.Arguments) = 2
    /\ last.info.Arguments[1].Info.TypeGuard = Int
    /\ last.info.Arguments[1].Info.Required
    /\ last.info.Arguments[2].Info.TypeGuard = stringGuard
    /\ Len(last.info.Arguments[2].Info.Choices.items) = 2
    /\ Len(slashCommands[ToLower(last.info.Trigger)].Options[2].Choices) = 2

\* C11: in a stored leaf schema, the option of a descriptor whose type guard is
\* no key of the type table has the option type the String guard maps to,
\* never the zero option type.
C11_UnknownGuardFallsBackToString ==
    LeafSchemaStored =>
        LET args   == last.info.Arguments
            schema == slashCommands[ToLower(last.info.Trigger)]
        IN  \A i \in 1..Len(args) :
                args[i].Info.TypeGuard \notin DOMAIN applicationCommandTypes =>
                    /\ schema.Options[i].Type = applicationCommandTypes[stringGuard]
                    /\ schema.Options[i].Type # ZeroOptionType

\* C16: the schema createChatInputSubCmdStruct returns for a parent whose
\* children all have an argument descriptor has exactly one option per child
\* whose first descriptor is not a subcommand group, that child's subcommand
\* option, and no nil slot.
C16_OneOptionPerKeptChild ==
    (/\ last.kind = "slash"
     /\ last.info.IsParent /\ last.info.IsChild
     /\ ~ChildFaults(ChildrenOf(last.info.Trigger))) =>
        LET kids   == ChildrenOf(last.info.Trigger)
            schema == slashCommands[ToLower(last.info.Trigger)]
        IN  /\ Len(schema.Options) = Cardinality(Kept(kids))
            /\ \A i \in DOMAIN schema.Options : schema.Options[i] # NilOption
            /\ \A t \in Kept(kids) :
                   Cardinality({ i \in DOMAIN schema.Options :
                                   schema.Options[i] = CreateAppOptSt(kids[t].Info) }) = 1

(***************************************************************************)
(* Specification SpecArgs: the interaction path of an admin over every     *)
(* option tree of at most MaxDepth levels and MaxWidth options per list,   *)
(* with pairwise distinct option names.                                    *)
(***************************************************************************)
OptionNames == {<<"x">>, <<"y">>, <<"z">>}

OptionValues == {"u", "v"}

\* the names of the options of a list, at every depth
RECURSIVE NamesIn(_)
NamesIn(options) ==
    IF options = <<>> THEN {}
    ELSE {Head(options).Name} \cup NamesIn(Head(options).Options.items)
             \cup NamesIn(Tail(options))

\* the option lists of at most width options, nested at most depth levels,
\* whose names are pairwise distinct names of the set names; an option has no
\* nested options (a nil slice) or at least one
RECURSIVE OptionLists(_, _, _)
OptionLists(depth, width, names) ==
    {<<>>} \cup
    IF depth = 0 \/ width = 0 THEN {}
    ELSE UNION { UNION { UNION { { <<DataOption(n, v, sub)>> \o rest :
                                     rest \in OptionLists(depth, width - 1,
                                                          (names \ {n}) \ NamesIn(sub.items)) } :
                                 sub \in {NilOptions} \cup
                                         { OptionList(l) :
                                             l \in OptionLists(depth - 1, MaxWidth, names \ {n})
                                                       \ {<<>>} } } :
                         v \in OptionValues } :
                 n \in names }

OptionTrees == OptionLists(MaxDepth, MaxWidth, OptionNames)

ArgsInfos == { Info(s_ban, <<>>, FALSE, FALSE, FALSE) }

ArgsEvents == { InteractionEvent(s_ban, TRUE, FALSE, options) : options \in OptionTrees }

NextArgs ==
    \/ \E info \in ArgsInfos : AddCommand(info)
    \/ \E ev \in ArgsEvents :
           handleInteractionCommand(ev, InteractionBehaviour("none", TRUE, TRUE, TRUE))

SpecArgs == Init /\ [][NextArgs]_vars

\* the options of a list, at every depth, that have no nested options
RECURSIVE Leaves(_)
Leaves(options) ==
    IF options = <<>> THEN {}
    ELSE (IF Head(options).Options.items = <<>> THEN {Head(options)}
          ELSE Leaves(Head(options).Options.items))
         \cup Leaves(Tail(options))

\* the interaction path invoked a handler
InteractionCalled == last.kind = "interaction" /\ Len(last.called) = 1

\* C12: the argument container a handler is invoked with on the interaction
\* path has, for every leaf option of the event's option tree at every depth,
\* an entry under the leaf's name that holds the leaf's value.
C12_ArgsFlattened ==
    InteractionCalled =>
        \A leaf \in Leaves(last.ev.options) :
            /\ leaf.Name \in DOMAIN last.called[1].Args
            /\ last.called[1].Args[leaf.Name].Value = leaf.Value

\* a handler was invoked with a subcommand option that holds two scalar options
C12_Witness ==
    /\ InteractionCalled
    /\ Len(last.ev.options) = 1
    /\ Len(last.ev.options[1].Options.items) = 2
    /\ Cardinality(DOMAIN last.called[1].Args) = 3

(***************************************************************************)
(* Specification SpecPublish: schema registration and publication, over    *)
(* every guild list of at most MaxGuilds guilds and every result of the    *)
(* platform calls.                                                         *)
(***************************************************************************)
PublishInfos == { Info(t, <<>>, FALSE, FALSE, FALSE) : t \in {s_ban, s_cfg} }

AppCommand(name, type) == [Name |-> name, Type |-> type]

\* what the platform holds: nothing, a chat-input and a user command, or a
\* user and a message command
Platforms ==
    { <<>>,
      <<AppCommand(<<"p">>, ChatApplicationCommand), AppCommand(<<"q">>, "UserApplicationCommand")>>,
      <<AppCommand(<<"q">>, "UserApplicationCommand"), AppCommand(<<"r">>, "MessageApplicationCommand")>> }

GuildIDs == {"g1", "g2", "g3"}

GuildLists ==
    UNION { { g \in [1..n -> GuildIDs] : \A i, j \in 1..n : g[i] = g[j] => i = j } :
            n \in 0..MaxGuilds }

PublishRun(platform, fetchOk, isDevEnv, guilds, results) ==
    [platform |-> platform, fetchOk |-> fetchOk, isDevEnv |-> isDevEnv, guilds |-> guilds,
     results |-> results]

PublishRuns ==
    UNION { { PublishRun(p, f, TRUE, g, r) : r \in [1..Len(g) -> BOOLEAN] } :
            p \in Platforms, f \in BOOLEAN, g \in GuildLists }
    \cup { PublishRun(p, f, FALSE, g, <<r>>) :
             p \in Platforms, f \in BOOLEAN, g \in {<<>>, <<"g1", "g2">>}, r \in BOOLEAN }

NextPublish ==
    \/ \E info \in PublishInfos : AddSlashCommand(info)
    \/ \E run \in PublishRuns : RegisterSlashCommands(run)

SpecPublish == Init /\ [][NextPublish]_vars

(***************************************************************************)
(* Claims about publication (checked under SpecPublish).                   *)
(***************************************************************************)
Published == last.kind = "publish"

\* the guilds of a run up to and including the first whose overwrite fails
Attempted(run) ==
    { i \in 1..Len(run.guilds) : \A j \in 1..(i - 1) : run.results[j] }

C20_NonChatInputCommandsKept ==
    Published =>
        LET run  == last.run
            made == last.overwrites
        IN  /\ \A i \in DOMAIN made :
                   LET cmds == made[i].commands
                   IN  /\ \A j \in DOMAIN run.platform :
                              NotChatInput(run.platform[j]) =>
                                  \E k \in DOMAIN cmds : cmds[k] = run.platform[j]
                       /\ \A key \in DOMAIN slashCommands :
                              Cardinality({ k \in DOMAIN cmds : cmds[k] = slashCommands[key] }) = 1
            /\ ~run.fetchOk => made = <<>>

(***************************************************************************)
(* Specification SpecList: registration, GetCommands, writes of the caller *)
(* to the map it returned, and the text path.                              *)
(***************************************************************************)
ListOp(delete, key, info) == [delete |-> delete, key |-> key, info |-> info]

\* additions, replacements and removals
ListOps ==
    { ListOp(FALSE, k, Info(k, <<>>, FALSE, TRUE, TRUE)) : k \in {s_ban, s_zz} }
    \cup { ListOp(TRUE, k, ZeroInfo) : k \in {s_ban, s_cfg} }

ListEvents == { TextEvent(t, s_foo, FALSE, FALSE, TRUE, FALSE, TRUE) : t \in {s_ban, s_cfg, s_zz} }

NextList ==
    \/ \E info \in AccessInfos : AddCommand(info)
    \/ GetCommandsCall
    \/ \E op \in ListOps : WriteList(op)
    \/ \E ev \in ListEvents : commandHandler(ev, Returns)

SpecList == Init /\ [][NextList]_vars

\* C14: the map GetCommands returns has the keys of the trigger table and, under
\* each, that command's CommandInfo without its handler; a write of the caller
\* to the returned map (an addition, a replacement or a removal) leaves the
\* trigger table, the alias table and what a text event is dispatched to
\* unchanged.
C14_GetCommandsIsACopy ==
    [][/\ (last'.kind = "list" /\ ~last'.written) =>
              /\ DOMAIN last'.list = DOMAIN commands
              /\ \A x \in DOMAIN commands : last'.list[x] = commands[x].Info
       /\ (last'.kind = "list" /\ last'.written) =>
              /\ commands' = commands
              /\ commandAliases' = commandAliases
              /\ \A ev \in ListEvents :
                     TextDispatch(ev, Returns)' = TextDispatch(ev, Returns)]_vars

\* the caller removed one command of two from the map it got and replaced the
\* other
C14_Witness ==
    /\ last.kind = "list"
    /\ last.written
    /\ DOMAIN commands = {s_ban, s_cfg}
    /\ DOMAIN last.list = {s_ban}
    /\ last.list[s_ban] # commands[s_ban].Info

(***************************************************************************)
(* Specification SpecComponents: registration of interaction handlers      *)
(* under identifiers that differ in letter case, and component             *)
(* activations, with every handler outcome and every result of the         *)
(* outbound calls of the recovery.                                         *)
(***************************************************************************)
InteractionInfo(id) == [Id |-> id]

InteractionInfos == { InteractionInfo(id) : id \in {s_ban, s_Ban, s_cfg, s_set} }

ComponentEvent(customID) == [customID |-> customID]

ComponentEvents == { ComponentEvent(id) : id \in {s_ban, s_Ban, s_cfg, s_set, s_zz} }

NextComponents ==
    \/ \E info \in InteractionInfos : AddInteractHandler(info)
    \/ \E ev \in ComponentEvents, beh \in InteractionBehaviours : handleMessageComponents(ev, beh)

SpecComponents == Init /\ [][NextComponents]_vars

\* the handlers of the table that were registered under exactly the identifier id
RegisteredAs(id) ==
    { k \in DOMAIN interactionHandlers : interactionHandlers[k].Info.Id = id }

\* C19: a component activation whose identifier is the one a handler of the
\* table was registered with invokes exactly that handler; one whose identifier
\* no handler is registered for, in any letter case, calls no handler, raises
\* no panic and produces no admin report.
C19_ComponentRouting ==
    last.kind = "component" =>
        /\ \A k \in RegisteredAs(last.ev.customID) :
               last.called = <<InteractCall(interactionHandlers[k])>>
        /\ ToLower(last.ev.customID) \notin DOMAIN interactionHandlers =>
               /\ last.called = <<>>
               /\ last.panic = "none"
               /\ ~last.escaped
               /\ Count(last.effects, "report") = 0

====
